---- MODULE Spec2Model ----
(***************************************************************************)
(* A model of the ImageLocalizator HTTP backend (src/server.js, the fuller *)
(* variant in lines 1-287): five endpoints over two directories, uploads/  *)
(* (images) and data/ (coordinate snapshots), a wall clock, and the Ollama *)
(* inference service as an external party whose answers are inputs.        *)
(*                                                                         *)
(* Text is modelled as a sequence of characters, so that basename,         *)
(* extname, the file filter's regular expression, trim and the brace scan  *)
(* of extractJsonFromText work on characters as the code does; a fixed     *)
(* piece of text no operation looks into (a name's prefix, a message) is   *)
(* one element of the sequence.                                            *)
(* JSON text is modelled by its syntax tree (a "doc"); JSON.parse and      *)
(* JSON.stringify are the conversions between docs and JavaScript values.  *)
(***************************************************************************)
EXTENDS Integers, Sequences, FiniteSets, TLC

VARIABLES uploadDir, uploads, dataDir, dataFiles, now, last

vars == <<uploadDir, uploads, dataDir, dataFiles, now, last>>

\* ------------------------------------------------------------------ bounds

\* The wall clock runs over the milliseconds 0..MaxClock.
MaxClock == 1
\* Math.random() * 1E9, rounded, is drawn from 0..MaxRand.
MaxRand == 0
\* A points array of a save request has at most MaxPoints elements.
MaxPoints == 1
\* The inference service's response text has at most MaxText characters.
MaxText == 5

\* ------------------------------------------------------- sequences of chars

Max(S) == CHOOSE m \in S : \A n \in S : n <= m

Min(S) == CHOOSE m \in S : \A n \in S : m <= n

\* All sequences over alphabet A of length at most n.
SeqsUpTo(A, n) == UNION {[1..k -> A] : k \in 0..n}

\* Array.prototype.slice(0, n) / String.prototype.slice(0, n).
Take(s, n) == SubSeq(s, 1, Min({n, Len(s)}))

\* needle occurs in hay as a contiguous run.
Contains(hay, needle) ==
    \E i \in 0..(Len(hay) - Len(needle)) :
        SubSeq(hay, i + 1, i + Len(needle)) = needle

DigitChars == <<"0", "1", "2", "3", "4", "5", "6", "7", "8", "9">>

\* The decimal text of a natural number, as template literals and + produce it.
RECURSIVE Dec(_)
Dec(n) ==
    IF n < 10 THEN <<DigitChars[n + 1]>>
    ELSE Dec(n \div 10) \o <<DigitChars[(n % 10) + 1]>>

UpperChars == <<"J", "P", "E", "G", "N", "W", "B">>

LowerChars == <<"j", "p", "e", "g", "n", "w", "b">>

\* String.prototype.toLowerCase, on the letters the model uses.
LowerChar(c) ==
    IF \E i \in 1..Len(UpperChars) : UpperChars[i] = c
    THEN LowerChars[CHOOSE i \in 1..Len(UpperChars) : UpperChars[i] = c]
    ELSE c

ToLowerCase(s) == [i \in 1..Len(s) |-> LowerChar(s[i])]

\* String.prototype.trim: the only white space of the model is the blank.
IsSpace(c) == c = " "

Trim(s) ==
    LET solid == {i \in 1..Len(s) : ~IsSpace(s[i])}
    IN  IF solid = {} THEN <<>> ELSE SubSeq(s, Min(solid), Max(solid))

\* ------------------------------------------------------------ path (posix)

\* path.basename(p): trailing slashes dropped, then the part after the last slash.
Basename(p) ==
    LET solid == {i \in 1..Len(p) : p[i] # "/"}
    IN  IF solid = {} THEN <<>>
        ELSE LET e == Max(solid)
                 slashes == {i \in 1..e : p[i] = "/"}
                 s == IF slashes = {} THEN 1 ELSE Max(slashes) + 1
             IN  SubSeq(p, s, e)

\* path.extname(p): from the last dot of the basename, unless that dot starts it.
Extname(p) ==
    LET b == Basename(p)
        dots == {i \in 1..Len(b) : b[i] = "."}
    IN  IF dots = {} \/ Max(dots) = 1 THEN <<>>
        ELSE SubSeq(b, Max(dots), Len(b))

\* The segments of a path text, split at slashes (empty segments dropped).
RECURSIVE Segments(_)
Segments(p) ==
    LET slashes == {i \in 1..Len(p) : p[i] = "/"}
    IN  IF p = <<>> THEN <<>>
        ELSE IF slashes = {} THEN <<p>>
        ELSE LET i == Min(slashes)
                 rest == Segments(SubSeq(p, i + 1, Len(p)))
             IN  IF i = 1 THEN rest ELSE <<SubSeq(p, 1, i - 1)>> \o rest

\* path.normalize on the segments of an absolute path: "." is dropped and
\* ".." removes the segment before it (nothing at the root).
RECURSIVE Normalize(_, _)
Normalize(done, todo) ==
    IF todo = <<>> THEN done
    ELSE LET seg == Head(todo)
         IN  IF seg = <<".">> THEN Normalize(done, Tail(todo))
             ELSE IF seg = <<".", ".">>
                  THEN Normalize(IF done = <<>> THEN done
                                 ELSE SubSeq(done, 1, Len(done) - 1), Tail(todo))
             ELSE Normalize(Append(done, seg), Tail(todo))

\* path.join(dir, name) for an absolute dir given by its segments.
Join(dir, name) == Normalize(dir, Segments(name))

\* __dirname: the directory of server.js, as the segments of its absolute path.
AppDir == << <<"s", "r", "v">> >>

\* path.join(__dirname, 'uploads'): the upload directory.
UploadsPath == Append(AppDir, <<"u", "p", "l", "o", "a", "d", "s">>)

\* ---------------------------------------------------------- JavaScript values

Undefined == [t |-> "undefined"]

Null == [t |-> "null"]

Bool(b) == [t |-> "boolean", v |-> b]

Num(n) == [t |-> "number", v |-> n]

\* The number Infinity, which a numeric literal beyond the double range parses to.
Infinity == [t |-> "infinity"]

NaN == [t |-> "nan"]

\* A string value; v is its text.
Str(s) == [t |-> "string", v |-> s]

Arr(items) == [t |-> "array", v |-> items]

\* An object: k are its keys in insertion order, v the values beside them.
Obj(keys, vals) == [t |-> "object", k |-> keys, v |-> vals]

\* ToBoolean, as ! and || apply it.
Truthy(val) ==
    CASE val.t = "undefined" -> FALSE
      [] val.t = "null" -> FALSE
      [] val.t = "nan" -> FALSE
      [] val.t = "boolean" -> val.v
      [] val.t = "number" -> val.v # 0
      [] val.t = "string" -> val.v # <<>>
      [] OTHER -> TRUE

IsArray(val) == val.t = "array"

\* obj.key, undefined when the object has no such key.
Get(obj, key) ==
    IF obj.t = "object" /\ \E i \in 1..Len(obj.k) : obj.k[i] = key
    THEN obj.v[CHOOSE i \in 1..Len(obj.k) : obj.k[i] = key]
    ELSE Undefined

\* ------------------------------------------------------------------- JSON

\* JSON text by its syntax tree.  A number literal is m * 10^e as written.
DNull == [t |-> "null"]

DBool(b) == [t |-> "bool", v |-> b]

DNum(m, e) == [t |-> "num", m |-> m, e |-> e]

DStr(s) == [t |-> "str", v |-> s]

DArr(items) == [t |-> "arr", v |-> items]

DObj(keys, vals) == [t |-> "obj", k |-> keys, v |-> vals]

RECURSIVE Pow10(_)
Pow10(e) == IF e = 0 THEN 1 ELSE 10 * Pow10(e - 1)

\* JSON.parse (also express.json() on a request body): a number literal whose
\* value exceeds the largest double (about 1.8e308) becomes Infinity.
RECURSIVE JsonParse(_)
JsonParse(doc) ==
    CASE doc.t = "null" -> Null
      [] doc.t = "bool" -> Bool(doc.v)
      [] doc.t = "num" ->
            IF doc.m # 0 /\ doc.e > 308 THEN Infinity ELSE Num(doc.m * Pow10(doc.e))
      [] doc.t = "str" -> Str(doc.v)
      [] doc.t = "arr" -> Arr([i \in 1..Len(doc.v) |-> JsonParse(doc.v[i])])
      [] doc.t = "obj" -> Obj(doc.k, [i \in 1..Len(doc.v) |-> JsonParse(doc.v[i])])

\* The entries of an object that JSON.stringify writes: undefined ones are left out.
RECURSIVE KeptEntries(_, _)
KeptEntries(keys, vals) ==
    IF keys = <<>> THEN <<>>
    ELSE LET rest == KeptEntries(Tail(keys), Tail(vals))
         IN  IF Head(vals).t = "undefined" THEN rest
             ELSE << <<Head(keys), Head(vals)>> >> \o rest

\* JSON.stringify(value, null, 2): indentation aside, the text it writes.
\* Infinity and NaN are written as null, and so is undefined inside an array.
RECURSIVE JsonStringify(_)
JsonStringify(val) ==
    CASE val.t \in {"undefined", "null", "infinity", "nan"} -> DNull
      [] val.t = "boolean" -> DBool(val.v)
      [] val.t = "number" -> DNum(val.v, 0)
      [] val.t = "string" -> DStr(val.v)
      [] val.t = "array" -> DArr([i \in 1..Len(val.v) |-> JsonStringify(val.v[i])])
      [] val.t = "object" ->
            LET kept == KeptEntries(val.k, val.v)
            IN  DObj([i \in 1..Len(kept) |-> kept[i][1]],
                     [i \in 1..Len(kept) |-> JsonStringify(kept[i][2])])

\* ------------------------------------------------------------------ dates

\* new Date(ms).toISOString(): the instant to the millisecond, in UTC.  The
\* model writes it as the millisecond count followed by Z.
ToISOString(ms) == Dec(ms) \o <<"Z">>

DigitOf(c) == (CHOOSE i \in 1..10 : DigitChars[i] = c) - 1

RECURSIVE ParseDec(_)
ParseDec(s) ==
    IF Len(s) = 1 THEN DigitOf(s[1])
    ELSE 10 * ParseDec(SubSeq(s, 1, Len(s) - 1)) + DigitOf(s[Len(s)])

\* Date.parse(text): the millisecond count, or -1 for an invalid date (NaN).
DateParse(s) ==
    IF /\ Len(s) >= 2
       /\ s[Len(s)] = "Z"
       /\ \A i \in 1..(Len(s) - 1) : \E d \in 1..10 : DigitChars[d] = s[i]
    THEN ParseDec(SubSeq(s, 1, Len(s) - 1))
    ELSE -1

\* A string constant of the program (a message), kept whole.
Text(s) == [t |-> "text", v |-> s]

\* ------------------------------------------------------------ file system

\* fs.existsSync(dataDir): the data directory exists.
DataDirExists == dataDir

\* The data directory with file `name` holding `doc`, as fs.writeFileSync leaves
\* it: the file is created, or truncated and rewritten when it exists.
WriteFile(files, name, doc) ==
    [n \in (DOMAIN files) \cup {name} |-> IF n = name THEN doc ELSE files[n]]

NoFiles == [n \in {} |-> DNull]

\* ----------------------------------------------------------------- state

NoRequest == [endpoint |-> "none", status |-> 0]

Init ==
    /\ uploadDir = FALSE
    /\ uploads = {}
    /\ dataDir = FALSE
    /\ dataFiles = NoFiles
    /\ now = 0
    /\ last = NoRequest

\* The exchange is over: the client has read the response.  `last` holds one
\* exchange at a time, and a handler starts when none is held.
Done ==
    /\ last # NoRequest
    /\ last' = NoRequest
    /\ UNCHANGED <<uploadDir, uploads, dataDir, dataFiles, now>>

Idle == last = NoRequest

\* A millisecond passes.
Tick ==
    /\ now < MaxClock
    /\ now' = now + 1
    /\ UNCHANGED <<uploadDir, uploads, dataDir, dataFiles, last>>

\* ------------------------------------------- POST /api/save-coordinates

\* A key the request body does not have.
Absent == [t |-> "absent"]

\* The JSON object with the given entries, the absent ones left out.
RECURSIVE PresentEntries(_, _)
PresentEntries(keys, docs) ==
    IF keys = <<>> THEN <<>>
    ELSE LET rest == PresentEntries(Tail(keys), Tail(docs))
         IN  IF Head(docs) = Absent THEN rest
             ELSE << <<Head(keys), Head(docs)>> >> \o rest

BodyDoc(keys, docs) ==
    LET e == PresentEntries(keys, docs)
    IN  DObj([i \in 1..Len(e) |-> e[i][1]], [i \in 1..Len(e) |-> e[i][2]])

ImageNameDocs ==
    {Absent, DNull, DStr(<<>>), DStr(<<"a", ".", "j", "p", "g">>)}

\* The elements of a points array: a point record and a number literal
\* beyond the double range (1e999).
PointDocs ==
    {DObj(<<"x", "y">>, <<DNum(1, 0), DNum(2, 0)>>), DNum(1, 999)}

PointsDocs ==
    {Absent, DNull, DStr(<<>>), DStr(<<"p", "t", "s">>), DNum(0, 0),
     DObj(<<>>, <<>>)}
    \cup {DArr(items) : items \in SeqsUpTo(PointDocs, MaxPoints)}

\* `coordinates_${Date.now()}.json`
SnapshotName(ms) == <<"coordinates_">> \o Dec(ms) \o <<".json">>

\* The validation without its Array.isArray test.
SaveValidNoArrayCheck(imageName, points) ==
    ~(~Truthy(imageName) \/ ~Truthy(points))

\* The validation of line 85.
SaveValid(imageName, points) ==
    ~(~Truthy(imageName) \/ ~Truthy(points) \/ ~IsArray(points))

\* The record without its timestamp.
SnapshotDataNoTimestamp(imageName, points, ms) ==
    Obj(<<"imageName", "points">>, <<imageName, points>>)

\* The record of lines 97-101, written at clock reading ms.
SnapshotData(imageName, points, ms) ==
    Obj(<<"imageName", "points", "timestamp">>,
        <<imageName, points, Str(ToISOString(ms))>>)

\* The handler.  t1 and t2 are the clock when Date.now() (line 94) and
\* new Date() (line 100) read it; disk says which file system call throws.
SaveCoordinates ==
    /\ Idle
    /\ \E inDoc \in ImageNameDocs, ptDoc \in PointsDocs,
          t1 \in now..MaxClock, disk \in {"ok", "mkdir", "write"} :
       \E t2 \in t1..MaxClock :
           LET body == JsonParse(BodyDoc(<<"imageName", "points">>, <<inDoc, ptDoc>>))
               imageName == Get(body, "imageName")
               points == Get(body, "points")
               filename == SnapshotName(t1)
               data == SnapshotData(imageName, points, t2)
               req == [endpoint |-> "save", body |-> body, start |-> now,
                       disk |-> disk, json |-> TRUE]
           IN  IF ~SaveValid(imageName, points)
               THEN /\ last' = req @@
                               [status |-> 400,
                                res |-> [error |-> Text("Dati non validi")]]
                    /\ t1 = now /\ t2 = now /\ disk = "ok"
                    /\ UNCHANGED <<uploadDir, uploads, dataDir, dataFiles, now>>
               ELSE IF disk = "mkdir"
               THEN /\ ~DataDirExists
                    /\ t1 = now /\ t2 = now
                    /\ last' = req @@
                               [status |-> 500, cause |-> "disk",
                                res |-> [error |-> Text("Errore durante il salvataggio delle coordinate")]]
                    /\ UNCHANGED <<uploadDir, uploads, dataDir, dataFiles, now>>
               ELSE IF disk = "write"
               THEN /\ dataDir' = TRUE
                    /\ now' = t2
                    /\ last' = req @@
                               [status |-> 500, cause |-> "disk",
                                res |-> [error |-> Text("Errore durante il salvataggio delle coordinate")]]
                    /\ UNCHANGED <<uploadDir, uploads, dataFiles>>
               ELSE /\ dataDir' = TRUE
                    /\ dataFiles' = WriteFile(dataFiles, filename, JsonStringify(data))
                    /\ now' = t2
                    /\ last' = req @@
                               [status |-> 200,
                                res |-> [success |-> Bool(TRUE),
                                         message |-> Text("Coordinate salvate con successo"),
                                         filePath |-> Str(filename)]]
                    /\ UNCHANGED <<uploadDir, uploads>>

\* ---------------------------------------------- POST /api/upload-image

\* limits.fileSize
FileSizeLimit == 20 * 1024 * 1024

\* The alternatives of the regular expression /jpeg|jpg|png|webp/.
FileTypes ==
    {<<"j", "p", "e", "g">>, <<"j", "p", "g">>, <<"p", "n", "g">>,
     <<"w", "e", "b", "p">>}

\* RegExp.prototype.test for that expression: it is not anchored, so it
\* holds when an alternative occurs anywhere in the text.
FileTypesTest(s) == \E alt \in FileTypes : Contains(s, alt)

\* upload.fileFilter: TRUE when the file is accepted (cb(null, true)).
FileFilter(originalname, mimetype) ==
    LET extname == FileTypesTest(ToLowerCase(Extname(originalname)))
        mime == FileTypesTest(mimetype)
    IN  extname /\ mime

\* storage.filename: fieldname-<Date.now()>-<random><extension>.
StoredName(ms, rand, originalname) ==
    <<"i", "m", "a", "g", "e", "-">> \o Dec(ms) \o <<"-">> \o Dec(rand)
        \o Extname(originalname)

\* The original names of the uploaded parts: a.png, a.txt, a.PNGX,
\* png (no extension), a.png.php.
OriginalNames ==
    {<<"a", ".", "p", "n", "g">>,
     <<"a", ".", "t", "x", "t">>,
     <<"a", ".", "P", "N", "G", "X">>,
     <<"p", "n", "g">>,
     <<"a", ".", "p", "n", "g", ".", "p", "h", "p">>}

\* The MIME types the client declares: image/png, image/gif, text/x-png.
MimeTypes ==
    {<<"i", "m", "a", "g", "e", "/", "p", "n", "g">>,
     <<"i", "m", "a", "g", "e", "/", "g", "i", "f">>,
     <<"t", "e", "x", "t", "/", "x", "-", "p", "n", "g">>}

\* The multipart request: no part named image, or one with a name, a declared
\* type and a size.
UploadParts ==
    {[present |-> FALSE]}
    \cup [present : {TRUE}, originalname : OriginalNames, mimetype : MimeTypes,
          size : {1, FileSizeLimit + 1}]

\* upload.single('image') and the handler.  A filter rejection and a size
\* overflow reach express's default error handler, which answers 500 with
\* an HTML page; the overflowing file is removed again.
UploadImage ==
    /\ Idle
    /\ \E part \in UploadParts, rand \in 0..MaxRand :
          LET req == [endpoint |-> "upload", part |-> part]
          IN  IF ~part.present
              THEN /\ rand = 0
                   /\ last' = req @@
                              [status |-> 400, json |-> TRUE, stored |-> FALSE,
                               res |-> [error |-> Text("Nessun file caricato")]]
                   /\ UNCHANGED <<uploadDir, uploads, dataDir, dataFiles, now>>
              ELSE IF ~FileFilter(part.originalname, part.mimetype)
              THEN /\ rand = 0
                   /\ last' = req @@
                              [status |-> 500, json |-> FALSE, stored |-> FALSE,
                               cause |-> "fileFilter",
                               res |-> [html |-> Text("Error: Solo immagini sono consentite (jpeg, jpg, png, webp)")]]
                   /\ UNCHANGED <<uploadDir, uploads, dataDir, dataFiles, now>>
              ELSE IF part.size > FileSizeLimit
              THEN /\ rand = 0
                   /\ uploadDir' = TRUE
                   /\ last' = req @@
                              [status |-> 500, json |-> FALSE, stored |-> FALSE,
                               cause |-> "fileSize",
                               res |-> [html |-> Text("MulterError: File too large")]]
                   /\ UNCHANGED <<uploads, dataDir, dataFiles, now>>
              ELSE LET name == StoredName(now, rand, part.originalname)
                   IN  /\ uploadDir' = TRUE
                       /\ uploads' = uploads \cup {name}
                       /\ last' = req @@
                                  [status |-> 200, json |-> TRUE, stored |-> TRUE,
                                   res |-> [success |-> Bool(TRUE),
                                            message |-> Text("Immagine caricata con successo"),
                                            imageUrl |-> Str(<<"http://host/uploads/">> \o name),
                                            filename |-> Str(name)]]
                       /\ UNCHANGED <<dataDir, dataFiles, now>>

\* ------------------------------------------------- the inference service

\* error.message / response text kept to its first 400 characters.
DetailLimit == 400

\* What the service does with a call: the call fails (network), it answers a
\* non-success status with a text, or it answers 200 with a body that is not
\* JSON or with a JSON payload.
Answer(kind, status, payload) == [kind |-> kind, status |-> status, payload |-> payload]

NetworkFailure == Answer("network", 0, Undefined)

ServerError == Answer("status", 500, Str(<<"o", "o", "p", "s">>))

NotJson == Answer("notjson", 200, Undefined)

Ok(payload) == Answer("ok", 200, payload)

\* `Status ${response.status}: ${detail.slice(0, 400)}` and its autolocate twin.
StatusMessage(prefix, sep, answer) ==
    Str(<<prefix>> \o Dec(answer.status) \o <<sep>> \o Take(answer.payload.v, DetailLimit))

\* a ?? b and a || b
Nullish(a, b) == IF a.t \in {"undefined", "null"} THEN b ELSE a

Or(a, b) == IF Truthy(a) THEN a ELSE b

\* ------------------------------------------------- GET /api/ollama/models

\* One record of the tag listing, as the service documents it.
ModelRecord ==
    Obj(<<"name", "modified_at", "size", "details">>,
        <<Str(<<"l", "l", "a", "v", "a">>), Str(<<"2", "0", "2", "4">>), Num(7),
          Obj(<<"parameter_size", "family">>, <<Str(<<"7", "B">>), Str(<<"l", "l", "a", "m", "a">>)>>)>>)

\* The projection of lines 125-132; it throws on a record that is null.
ProjectModel(model) ==
    LET details == Get(model, "details")
    IN  Obj(<<"name", "modified", "size", "parameterSize", "quantization", "family">>,
            <<Get(model, "name"), Get(model, "modified_at"), Get(model, "size"),
              Nullish(Get(details, "parameter_size"), Null),
              Nullish(Get(details, "quantization_level"), Null),
              Nullish(Get(details, "family"), Nullish(Get(model, "model"), Null))>>)

ModelsAnswers ==
    {NetworkFailure, ServerError, NotJson, Ok(Null), Ok(Obj(<<>>, <<>>)),
     Ok(Obj(<<"models">>, <<Str(<<"n", "o">>)>>)),
     Ok(Obj(<<"models">>, <<Arr(<<ModelRecord>>)>>)),
     Ok(Obj(<<"models">>, <<Arr(<<Obj(<<"name">>, <<Str(<<"m">>)>>)>>)>>)),
     Ok(Obj(<<"models">>, <<Arr(<<ModelRecord, Null>>)>>))}

ModelsFailure(cause, details) ==
    [status |-> 502, json |-> TRUE, cause |-> cause,
     res |-> [success |-> Bool(FALSE),
              error |-> Text("Impossibile recuperare i modelli disponibili da Ollama"),
              details |-> details]]

\* The handler's answer to what the service did.
ModelsReply(answer) ==
    IF answer.kind = "network" THEN ModelsFailure("fetch", Text("fetch failed"))
    ELSE IF answer.kind = "status"
    THEN ModelsFailure("upstreamStatus", StatusMessage("Status ", ": ", answer))
    ELSE IF answer.kind = "notjson"
    THEN ModelsFailure("upstreamBody", Text("Unexpected token"))
    ELSE LET payload == answer.payload
         IN  IF payload.t \in {"null", "undefined"}
             THEN ModelsFailure("upstreamBody", Text("Cannot read properties of null"))
             ELSE LET list == Get(payload, "models")
                  IN  IF IsArray(list) /\ \E i \in 1..Len(list.v) : list.v[i].t = "null"
                      THEN ModelsFailure("upstreamBody", Text("Cannot read properties of null"))
                      ELSE [status |-> 200, json |-> TRUE,
                            res |-> [success |-> Bool(TRUE),
                                     models |-> IF IsArray(list)
                                                THEN Arr([i \in 1..Len(list.v) |-> ProjectModel(list.v[i])])
                                                ELSE Arr(<<>>)]]

ListModels ==
    /\ Idle
    /\ \E answer \in ModelsAnswers :
          last' = [endpoint |-> "models", answer |-> answer] @@ ModelsReply(answer)
    /\ UNCHANGED <<uploadDir, uploads, dataDir, dataFiles, now>>

\* ------------------------------------------- the service's response text

\* The characters of a response text: braces, the blank, x for any other
\* character of prose, and three brace-free runs that are JSON members:
\*   m  stands for  "mapPoints":[1]
\*   a  stands for  "analysis":"ok"
\*   p  stands for  "estimatedPose":   (an object must follow)
TextChars == {"{", "}", " ", "x", "m", "a", "p"}

\* The position after the blanks that start at position i.
RECURSIVE SkipBlanks(_, _)
SkipBlanks(s, i) ==
    IF i <= Len(s) /\ IsSpace(s[i]) THEN SkipBlanks(s, i + 1) ELSE i

Failed == [ok |-> FALSE, val |-> Undefined, next |-> 0]

\* The JSON object that starts at position i of s (s[i] is an opening
\* brace): ok, its value and the position after it, or a syntax error.
RECURSIVE ParseObjectAt(_, _)
ParseObjectAt(s, i) ==
    LET j == SkipBlanks(s, i + 1)
        close(keys, vals, k) ==
            LET e == SkipBlanks(s, k)
            IN  IF e <= Len(s) /\ s[e] = "}"
                THEN [ok |-> TRUE, val |-> Obj(keys, vals), next |-> e + 1]
                ELSE Failed
    IN  IF j > Len(s) THEN Failed
        ELSE IF s[j] = "}" THEN [ok |-> TRUE, val |-> Obj(<<>>, <<>>), next |-> j + 1]
        ELSE IF s[j] = "m" THEN close(<<"mapPoints">>, <<Arr(<<Num(1)>>)>>, j + 1)
        ELSE IF s[j] = "a" THEN close(<<"analysis">>, <<Str(<<"o", "k">>)>>, j + 1)
        ELSE IF s[j] = "p"
        THEN LET k == SkipBlanks(s, j + 1)
             IN  IF k <= Len(s) /\ s[k] = "{"
                 THEN LET inner == ParseObjectAt(s, k)
                      IN  IF inner.ok
                          THEN close(<<"estimatedPose">>, <<inner.val>>, inner.next)
                          ELSE Failed
                 ELSE Failed
        ELSE Failed

\* JSON.parse(text): ok and the value, or not ok when it throws a SyntaxError.
JsonParseText(s) ==
    LET i == SkipBlanks(s, 1)
    IN  IF i <= Len(s) /\ s[i] = "{"
        THEN LET r == ParseObjectAt(s, i)
             IN  IF r.ok /\ SkipBlanks(s, r.next) = Len(s) + 1 THEN r ELSE Failed
        ELSE Failed

\* String.prototype.indexOf / lastIndexOf for one character: 0-based, -1 if absent.
IndexOf(s, c) ==
    LET at == {i \in 1..Len(s) : s[i] = c}
    IN  IF at = {} THEN -1 ELSE Min(at) - 1

LastIndexOf(s, c) ==
    LET at == {i \in 1..Len(s) : s[i] = c}
    IN  IF at = {} THEN -1 ELSE Max(at) - 1

\* String.prototype.slice(from, to) with 0-based bounds inside the text.
Slice(s, from, to) == SubSeq(s, from + 1, to)

\* extractJsonFromText: the parsed span from the first { to the last }, or null.
ExtractJsonFromText(text) ==
    IF text = <<>> THEN Null
    ELSE LET first == IndexOf(text, "{")
             lastBrace == LastIndexOf(text, "}")
         IN  IF first = -1 \/ lastBrace = -1 \/ lastBrace <= first THEN Null
             ELSE LET r == JsonParseText(Slice(text, first, lastBrace + 1))
                  IN  IF r.ok THEN r.val ELSE Null

\* ---------------------------------------------- POST /api/ollama/autolocate

\* formatExistingPoints uses the first 12 points.
MaxPromptPoints == 12

\* formatExistingPoints(points): the number of lines it formats, or a throw:
\* point.label on a point that is null is a TypeError.
FormatExistingPoints(points) ==
    IF ~IsArray(points) \/ Len(points.v) = 0
    THEN [threw |-> FALSE, lines |-> 0]
    ELSE LET used == Take(points.v, MaxPromptPoints)
         IN  IF \E i \in 1..Len(used) : used[i].t \in {"null", "undefined"}
             THEN [threw |-> TRUE, lines |-> 0]
             ELSE [threw |-> FALSE, lines |-> Len(used)]

\* buildAutoLocatePrompt(existingPoints = []): the default applies to undefined.
BuildAutoLocatePrompt(existingPoints) ==
    FormatExistingPoints(IF existingPoints.t = "undefined" THEN Arr(<<>>) ELSE existingPoints)

\* Files outside the application directory: /etc/passwd.
OutsideFiles == { << <<"e", "t", "c">>, <<"p", "a", "s", "s", "w", "d">> >> }

IsUploadedFile(path) ==
    /\ Len(path) = Len(UploadsPath) + 1
    /\ SubSeq(path, 1, Len(UploadsPath)) = UploadsPath
    /\ path[Len(path)] \in uploads

\* The path is a directory: the root, /etc, the application directory, uploads/.
IsDirectory(path) ==
    \/ path = <<>>
    \/ path = << <<"e", "t", "c">> >>
    \/ path = AppDir
    \/ path = UploadsPath /\ uploadDir

\* An existence test that always succeeds.
ExistsSyncAlways(path) == TRUE

\* fs.existsSync(path)
ExistsSync(path) == IsDirectory(path) \/ path \in OutsideFiles \/ IsUploadedFile(path)

\* fsPromises.readFile(path): "ok", or the code of the error it rejects with.
ReadFile(path) ==
    IF IsDirectory(path) THEN "EISDIR"
    ELSE IF path \in OutsideFiles \/ IsUploadedFile(path) THEN "ok"
    ELSE "ENOENT"

AutolocateFailure(status, cause, error) ==
    [status |-> status, json |-> TRUE, cause |-> cause,
     res |-> [success |-> Bool(FALSE), error |-> Text(error)]]

\* The catch of lines 188-195.
AutolocateCaught(cause, details) ==
    [status |-> 502, json |-> TRUE, cause |-> cause,
     res |-> [success |-> Bool(FALSE),
              error |-> Text("Impossibile completare la localizzazione tramite Ollama"),
              details |-> details]]

\* The same answer with the response text left untrimmed.
AutolocateReplyNoTrim(answer) ==
    IF answer.kind = "network" THEN AutolocateCaught("fetch", Text("fetch failed"))
    ELSE IF answer.kind = "status"
    THEN AutolocateCaught("upstreamStatus", StatusMessage("Richiesta a Ollama fallita (", "): ", answer))
    ELSE IF answer.kind = "notjson"
    THEN AutolocateCaught("upstreamBody", Text("Unexpected token"))
    ELSE LET payload == answer.payload
             response == Get(payload, "response")
         IN  IF payload.t \in {"null", "undefined"}
             THEN AutolocateCaught("upstreamBody", Text("Cannot read properties of null"))
             ELSE IF Truthy(response) /\ response.t # "string"
             THEN AutolocateCaught("upstreamBody", Text("trim is not a function"))
             ELSE LET rawText == Or(response, Str(<<>>)).v
                      parsed == ExtractJsonFromText(rawText)
                      mapPoints == Get(parsed, "mapPoints")
                  IN  [status |-> 200, json |-> TRUE,
                       res |-> [success |-> Bool(TRUE),
                                suggestions |-> IF IsArray(mapPoints) THEN mapPoints ELSE Arr(<<>>),
                                pose |-> Or(Get(parsed, "estimatedPose"), Null),
                                analysis |-> Or(Get(parsed, "analysis"),
                                                Or(Get(parsed, "reasoning"), Str(rawText))),
                                raw |-> Str(rawText)]]

\* Lines 174-187: the handler's answer to what the service did.
AutolocateReply(answer) ==
    IF answer.kind = "network" THEN AutolocateCaught("fetch", Text("fetch failed"))
    ELSE IF answer.kind = "status"
    THEN AutolocateCaught("upstreamStatus", StatusMessage("Richiesta a Ollama fallita (", "): ", answer))
    ELSE IF answer.kind = "notjson"
    THEN AutolocateCaught("upstreamBody", Text("Unexpected token"))
    ELSE LET payload == answer.payload
             response == Get(payload, "response")
         IN  IF payload.t \in {"null", "undefined"}
             THEN AutolocateCaught("upstreamBody", Text("Cannot read properties of null"))
             ELSE IF Truthy(response) /\ response.t # "string"
             THEN AutolocateCaught("upstreamBody", Text("trim is not a function"))
             ELSE LET rawText == Trim(Or(response, Str(<<>>)).v)
                      parsed == ExtractJsonFromText(rawText)
                      mapPoints == Get(parsed, "mapPoints")
                  IN  [status |-> 200, json |-> TRUE,
                       res |-> [success |-> Bool(TRUE),
                                suggestions |-> IF IsArray(mapPoints) THEN mapPoints ELSE Arr(<<>>),
                                pose |-> Or(Get(parsed, "estimatedPose"), Null),
                                analysis |-> Or(Get(parsed, "analysis"),
                                                Or(Get(parsed, "reasoning"), Str(rawText))),
                                raw |-> Str(rawText)]]

\* The model names of the requests: none, the empty string, llava.
ModelDocs == {Absent, DStr(<<>>), DStr(<<"l", "l", "a", "v", "a">>)}

\* The file names of the requests: none, the empty string, "..", "a/..", ".",
\* "../../etc/passwd", "ghost.png", the number 5, and for every uploaded
\* file its name and its name behind a directory, "x/<name>".
FilenameDocs ==
    {Absent, DStr(<<>>), DNum(5, 0),
     DStr(<<".", ".">>), DStr(<<"a", "/", ".", ".">>), DStr(<<".">>),
     DStr(<<".", ".", "/", ".", ".", "/", "e", "t", "c", "/", "p", "a", "s", "s", "w", "d">>),
     DStr(<<"g", "h", "o", "s", "t", ".", "p", "n", "g">>)}
    \cup {DStr(n) : n \in uploads}
    \cup {DStr(<<"x", "/">> \o n) : n \in uploads}

APoint == DObj(<<"label", "xNorm", "yNorm">>, <<DStr(<<"P">>), DNum(0, 0), DNum(1, 0)>>)

\* The existingPoints of the requests: none, [], one point, [null], a
\* string, and thirteen elements of which the last is null.
ExistingPointsDocs ==
    {Absent, DArr(<<>>), DArr(<<APoint>>), DArr(<<DNull>>), DStr(<<"x">>),
     DArr([i \in 1..(MaxPromptPoints + 1) |-> IF i <= MaxPromptPoints THEN APoint ELSE DNull])}

\* Response texts tried against the whole server; SpecExtract tries them all.
SampleTexts ==
    {<<>>, <<" ">>, <<"x">>, <<"{", "}">>, <<"}", "{">>, <<"{", "x", "}">>,
     <<" ", "{", "m", "}", " ">>, <<"x", "{", "a", "}", "x">>,
     <<"{", "p", "{", "}", "}">>, <<"{", "}", "{", "}">>}

GenerateAnswers ==
    {NetworkFailure, ServerError, NotJson, Ok(Null), Ok(Obj(<<>>, <<>>)),
     Ok(Obj(<<"response">>, <<Num(5)>>))}
    \cup {Ok(Obj(<<"response">>, <<Str(text)>>)) : text \in SampleTexts}

NoAnswer == Answer("none", 0, Undefined)

\* The handler.  `trace` lists, in order, the checks, file system calls and
\* the outbound call it made; disk = "read" records that readFile threw;
\* `answer` is what the service does with the call, when one is made.
AutoLocate ==
    /\ Idle
    /\ UNCHANGED <<uploadDir, uploads, dataDir, dataFiles, now>>
    /\ \E mDoc \in ModelDocs, fDoc \in FilenameDocs, eDoc \in ExistingPointsDocs :
          LET body == JsonParse(BodyDoc(<<"model", "filename", "existingPoints">>,
                                        <<mDoc, fDoc, eDoc>>))
              model == Get(body, "model")
              filename == Get(body, "filename")
              existingPoints == Get(body, "existingPoints")
              safeFilename == Basename(filename.v)
              absolutePath == Join(UploadsPath, safeFilename)
              t1 == <<[op |-> "checkModel"]>>
              t2 == Append(t1, [op |-> "checkFilename"])
              t3 == Append(t2, [op |-> "existsSync", path |-> absolutePath])
              t4 == Append(t3, [op |-> "readFile", path |-> absolutePath])
              t5 == Append(t4, [op |-> "buildPrompt"])
              t6 == Append(t5, [op |-> "fetch", model |-> model])
              req(disk, answer) ==
                  [endpoint |-> "autolocate", body |-> body, disk |-> disk,
                   answer |-> answer]
          IN  IF ~Truthy(model)
              THEN last' = req("ok", NoAnswer) @@ [trace |-> t1] @@
                           AutolocateFailure(400, "input",
                               "Specificare il modello Ollama da utilizzare.")
              ELSE IF ~Truthy(filename)
              THEN last' = req("ok", NoAnswer) @@ [trace |-> t2] @@
                           AutolocateFailure(400, "input",
                               "Nessuna immagine associata alla richiesta.")
              ELSE IF filename.t # "string"
              THEN last' = req("ok", NoAnswer) @@ [trace |-> t2] @@
                           AutolocateCaught("basename",
                               Text("The \"path\" argument must be of type string"))
              ELSE IF ~ExistsSync(absolutePath)
              THEN last' = req("ok", NoAnswer) @@ [trace |-> t3] @@
                           AutolocateFailure(404, "notFound",
                               "Immagine non trovata sul server.")
              ELSE IF ReadFile(absolutePath) # "ok"
              THEN last' = req("ok", NoAnswer) @@ [trace |-> t4] @@
                           AutolocateCaught("readFile", Text(ReadFile(absolutePath)))
              ELSE \/ last' = req("read", NoAnswer) @@ [trace |-> t4] @@
                              AutolocateCaught("readFile", Text("EIO"))
                   \/ IF BuildAutoLocatePrompt(existingPoints).threw
                      THEN last' = req("ok", NoAnswer) @@ [trace |-> t5] @@
                                   AutolocateCaught("buildPrompt",
                                       Text("Cannot read properties of null (reading 'label')"))
                      ELSE \E answer \in GenerateAnswers :
                              last' = req("ok", answer) @@ [trace |-> t6] @@
                                      AutolocateReply(answer)

\* ------------------------------------------------------- POST /api/log

LevelDocs ==
    {Absent, DStr(<<"error">>), DStr(<<"warn">>), DStr(<<"info">>),
     DStr(<<"debug">>), DNum(5, 0)}

\* The console method of line 207.
ConsoleLevel(level) ==
    IF level \in {Str(<<"error">>), Str(<<"warn">>), Str(<<"info">>)}
    THEN level.v[1]
    ELSE "log"

\* The handler: nothing in its try block throws on a JSON body.
ClientLog ==
    /\ Idle
    /\ \E lDoc \in LevelDocs :
          LET body == JsonParse(BodyDoc(<<"level">>, <<lDoc>>))
              level == Nullish(Get(body, "level"), Str(<<"info">>))
          IN  last' = [endpoint |-> "log", body |-> body,
                       console |-> ConsoleLevel(IF Get(body, "level").t = "undefined"
                                                THEN Str(<<"info">>)
                                                ELSE Get(body, "level")),
                       status |-> 200, json |-> TRUE,
                       res |-> [success |-> Bool(TRUE)]]
    /\ UNCHANGED <<uploadDir, uploads, dataDir, dataFiles, now>>


\* ---------------------------------------------------------- specifications

Next ==
    \/ UploadImage
    \/ SaveCoordinates
    \/ ListModels
    \/ AutoLocate
    \/ ClientLog
    \/ Tick
    \/ Done

Spec == Init /\ [][Next]_vars

\* The server under save-coordinates requests only.
NextSave ==
    \/ SaveCoordinates
    \/ Tick
    \/ Done

SpecSave == Init /\ [][NextSave]_vars

\* The server under uploads and autolocate requests only, all arriving
\* within one millisecond.
NextLocate ==
    \/ UploadImage
    \/ AutoLocate
    \/ Done

SpecLocate == Init /\ [][NextLocate]_vars

\* ------------------------------------------- the reply, on every short text

AllTexts == SeqsUpTo(TextChars, MaxText)

AllAnswers ==
    {NetworkFailure, ServerError, NotJson, Ok(Null), Ok(Obj(<<>>, <<>>)),
     Ok(Obj(<<"response">>, <<Num(5)>>))}
    \cup {Ok(Obj(<<"response">>, <<Str(text)>>)) : text \in AllTexts}

\* An autolocate request waits at `await fetchWithPolyfill(...)` (line 161)
\* and the service has done `answer`.
InitExtract ==
    /\ uploadDir = FALSE
    /\ uploads = {}
    /\ dataDir = FALSE
    /\ dataFiles = NoFiles
    /\ now = 0
    /\ last \in {[endpoint |-> "generate", status |-> 0, answer |-> a] : a \in AllAnswers}

\* The handler resumes with the answer (lines 174-195).
Reply ==
    /\ last.endpoint = "generate"
    /\ last' = [endpoint |-> "autolocate", answer |-> last.answer]
                @@ AutolocateReply(last.answer)
    /\ UNCHANGED <<uploadDir, uploads, dataDir, dataFiles, now>>

SpecExtract == InitExtract /\ [][Reply]_vars

\* =================================================================== claims

\* The parsed content of a snapshot file.
ReadSnapshot(name) == JsonParse(dataFiles[name])

\* No number of the value lies beyond the double range.
RECURSIVE Finite(_)
Finite(val) ==
    CASE val.t \in {"infinity", "nan"} -> FALSE
      [] val.t \in {"array", "object"} -> \A i \in 1..Len(val.v) : Finite(val.v[i])
      [] OTHER -> TRUE

LastSaveImageName == Get(last.body, "imageName")

LastSavePoints == Get(last.body, "points")

\* C1: a snapshot file, once written, keeps its content: no step removes a
\* file of the data directory or changes what it holds (two saves handled
\* within the same millisecond included).
C1_SnapshotsImmutable ==
    [][\A n \in DOMAIN dataFiles :
          n \in DOMAIN dataFiles' /\ dataFiles'[n] = dataFiles[n]]_vars

\* C4: a save request whose body lacks imageName, lacks points, or whose
\* points is not an array is answered 400 and changes nothing on disk.
C4_InvalidSaveNoEffect ==
    [][(/\ last'.endpoint = "save"
        /\ \/ Get(last'.body, "imageName").t = "undefined"
           \/ Get(last'.body, "points").t = "undefined"
           \/ Get(last'.body, "points").t # "array")
       => (/\ last'.status = 400
           /\ UNCHANGED <<uploadDir, uploads, dataDir, dataFiles>>)]_vars

\* C4's case: a request whose points is a non-empty string was answered 400
\* while the data directory does not exist.
C4_Witness ==
    /\ last.endpoint = "save"
    /\ LastSavePoints = Str(<<"p", "t", "s">>)
    /\ Truthy(LastSaveImageName)
    /\ last.status = 400
    /\ ~dataDir

\* The response names a snapshot whose parsed content reproduces the request.
SnapshotReproducesRequest ==
    /\ last.status = 200
    /\ last.res.filePath.v \in DOMAIN dataFiles
    /\ LET snap == ReadSnapshot(last.res.filePath.v)
       IN  /\ Get(snap, "imageName") = LastSaveImageName
           /\ Get(snap, "points") = LastSavePoints
           /\ Get(snap, "timestamp").t = "string"
           /\ DateParse(Get(snap, "timestamp").v) >= last.start

\* A save request with a non-empty imageName and an array as points, handled
\* without a file system failure.
SaveAccepted ==
    /\ last.endpoint = "save"
    /\ LastSaveImageName.t = "string" /\ LastSaveImageName.v # <<>>
    /\ LastSavePoints.t = "array"
    /\ last.disk = "ok"

LastModel == Get(last.body, "model")

LastFilename == Get(last.body, "filename")

\* The operations of the handler's trace, in order.
LastOps == [i \in 1..Len(last.trace) |-> last.trace[i].op]

Did(op) == \E i \in 1..Len(last.trace) : last.trace[i].op = op

\* The path is an entry directly inside the upload directory.
IsUploadsChild(path) ==
    /\ Len(path) = Len(UploadsPath) + 1
    /\ SubSeq(path, 1, Len(UploadsPath)) = UploadsPath

\* C2: for every truthy filename, the path that autolocate found to exist and
\* passes to readFile is a direct child of the upload directory.
C2_ReadsStayInUploads ==
    (last.endpoint = "autolocate" /\ Truthy(LastFilename))
    => \A i \in 1..Len(last.trace) :
          last.trace[i].op = "readFile" => IsUploadsChild(last.trace[i].path)

\* The extensions and MIME types the upload endpoint is meant to admit.
AllowedExtensions ==
    {<<".", "j", "p", "e", "g">>, <<".", "j", "p", "g">>, <<".", "p", "n", "g">>,
     <<".", "w", "e", "b", "p">>}

AllowedMimeTypes ==
    {<<"i", "m", "a", "g", "e", "/">> \o SubSeq(e, 2, Len(e)) : e \in AllowedExtensions}

\* C3: an upload whose extension is outside {jpeg, jpg, png, webp} or whose
\* MIME type is not one of those image types is not answered with success
\* and adds no file to the upload directory.
C3_OnlyImagesStored ==
    [][(/\ last'.endpoint = "upload"
        /\ last'.part.present
        /\ \/ ToLowerCase(Extname(last'.part.originalname)) \notin AllowedExtensions
           \/ last'.part.mimetype \notin AllowedMimeTypes)
       => (last'.status # 200 /\ uploads' = uploads)]_vars

\* The filename is a string whose base name is a file of the upload directory.
NamesUploadedFile(filename) ==
    filename.t = "string" /\ Basename(filename.v) \in uploads

\* C6: an autolocate request (one that carries a model and a filename) whose
\* filename names no file of the upload directory is answered 404, whatever
\* the form of the filename.
C6_MissingImageIs404 ==
    (/\ last.endpoint = "autolocate"
     /\ Truthy(LastModel) /\ Truthy(LastFilename)
     /\ ~NamesUploadedFile(LastFilename))
    => last.status = 404

\* C7: every error response is a JSON envelope with success: false and an
\* error field.
C7_ErrorEnvelope ==
    last.status >= 400
    => /\ last.json
       /\ "success" \in DOMAIN last.res /\ last.res.success = Bool(FALSE)
       /\ "error" \in DOMAIN last.res

\* What made a request fail: the inference service, or the server itself.
UpstreamCauses == {"fetch", "upstreamStatus", "upstreamBody"}

LocalCauses == {"disk", "readFile", "buildPrompt", "basename"}

\* C8: 502 is answered only when the inference service answered a
\* non-success status or the call to it failed; a local failure (a disk read
\* or write exception, an exception while building the prompt) is answered 500.
C8_StatusFollowsTaxonomy ==
    last.status >= 500
    => /\ last.status = 502 => last.cause \in UpstreamCauses
       /\ last.cause \in LocalCauses => last.status = 500

\* The response text of an answer that keeps the service's contract: the
\* payload is an object whose response is a string, or is missing.
ContractText(answer) ==
    IF Get(answer.payload, "response").t = "string"
    THEN Get(answer.payload, "response").v
    ELSE <<>>

KeepsContract(answer) ==
    /\ answer.kind = "ok"
    /\ answer.payload.t = "object"
    /\ Get(answer.payload, "response").t \in {"string", "undefined"}

\* The span from the first { to the last } of the text exists and is JSON.
SpanParses(text) ==
    \E i, j \in 1..Len(text) :
        /\ text[i] = "{" /\ \A k \in 1..(i - 1) : text[k] # "{"
        /\ text[j] = "}" /\ \A k \in (j + 1)..Len(text) : text[k] # "}"
        /\ i < j
        /\ JsonParseText(SubSeq(text, i, j)).ok

C10_CallAfterChecks ==
    last.endpoint = "autolocate"
    => /\ Did("fetch")
          => /\ Truthy(LastModel) /\ Truthy(LastFilename)
             /\ LastOps = <<"checkModel", "checkFilename", "existsSync",
                            "readFile", "buildPrompt", "fetch">>
       /\ \A i \in 1..Len(last.trace) :
             last.trace[i].op = "readFile"
             => /\ i > 1 /\ last.trace[i - 1].op = "existsSync"
                /\ last.trace[i - 1].path = last.trace[i].path
                /\ \/ IsDirectory(last.trace[i].path)
                   \/ IsUploadedFile(last.trace[i].path)
                   \/ last.trace[i].path \in OutsideFiles
       /\ last.status \in {400, 404} => ~Did("readFile") /\ ~Did("fetch")
       /\ ~Truthy(LastModel)
          => /\ last.status = 400
             /\ LastOps = <<"checkModel">>
             /\ last.res.error = Text("Specificare il modello Ollama da utilizzare.")

\* C10's case: the call was made for an uploaded file and answered.
C10_Witness ==
    /\ last.endpoint = "autolocate"
    /\ Did("fetch")
    /\ last.status = 200
    /\ NamesUploadedFile(LastFilename)

====
